---- MODULE Spec2Model ----
(***************************************************************************)
(* Model of cleaner.py: the polling loop that scans the Sonarr and Radarr  *)
(* download queues, deletes stalled downloads, triggers the list imports   *)
(* and the missing-episode search, sleeps, and repeats.                    *)
(*                                                                         *)
(* Every awaited HTTP call is two steps: the request is sent (it joins     *)
(* inflight and the request log) and, later, its response arrives.  The    *)
(* response is the environment's choice: a JSON body or a failure.         *)
(* A Python exception nothing catches (KeyError) ends the process:         *)
(* pc = "crashed".                                                         *)
(***************************************************************************)
EXTENDS Integers, Sequences, FiniteSets, TLC

VARIABLES
    pc,           \* position inside the running function
    fn,           \* index into MainOrder of the running function; 0 = top of the loop
    cycle,        \* number of loop iterations started
    slept,        \* total time spent in asyncio.sleep
    API_TIMEOUT,  \* the configured interval (environment variable)
    steps,        \* functions entered in this iteration, then "sleep"
    inflight,     \* requests sent whose response has not arrived
    requests,     \* requests sent by the running (or just finished) function
    the_queue,    \* count_records: the response of the count GET
    count,        \* the value count_records returned (the pageSize)
    queue,        \* sonarr_queue / radarr_queue: the response of the page GET
    i,            \* position of the for loop in queue['records']
    deleted,      \* positions of the records a DELETE was sent for
    failed,       \* positions of the records whose DELETE returned None
    warnings,     \* logging.warning lines of the running function
    errors,       \* logging.error lines of the running function
    reply         \* what the call that just returned gave back

vars == <<pc, fn, cycle, slept, API_TIMEOUT, steps, inflight, requests,
          the_queue, count, queue, i, deleted, failed, warnings, errors, reply>>

(***************************************************************************)
(* Bounds                                                                  *)
(***************************************************************************)
MaxRecords == 3
MaxCycles == 3

Intervals == {1, 5}

(***************************************************************************)
(* Values                                                                  *)
(***************************************************************************)
None == [isNone |-> TRUE]
Some(v) == [isNone |-> FALSE, json |-> v]
Unset == [unset |-> TRUE]
NoReply == [outcome |-> "none"]

STALLED_MESSAGE == "The download is stalled with no connections"

\* Queue records as the services may return them: any field may be absent.
RecStalledA == [id |-> 1, title |-> "A", status |-> "warning",
                trackedDownloadStatus |-> "warning", errorMessage |-> STALLED_MESSAGE]
RecStalledB == [id |-> 2, title |-> "B", status |-> "warning",
                trackedDownloadStatus |-> "warning", errorMessage |-> STALLED_MESSAGE]
RecDownloading == [id |-> 3, title |-> "C", status |-> "downloading",
                   trackedDownloadStatus |-> "ok"]
RecOtherWarning == [id |-> 4, title |-> "D", status |-> "warning",
                    trackedDownloadStatus |-> "warning", errorMessage |-> "Not an upgrade"]
RecStalledNoTitle == [id |-> 5, status |-> "warning",
                      trackedDownloadStatus |-> "warning", errorMessage |-> STALLED_MESSAGE]
RecWarningNoMessage == [id |-> 6, title |-> "F", status |-> "warning",
                        trackedDownloadStatus |-> "warning"]
RecStalledNoId == [title |-> "G", status |-> "warning",
                   trackedDownloadStatus |-> "warning", errorMessage |-> STALLED_MESSAGE]

RecordPool == {RecStalledA, RecStalledB, RecDownloading, RecOtherWarning,
               RecStalledNoTitle, RecWarningNoMessage, RecStalledNoId}

Pages == UNION {[1..n -> RecordPool] : n \in 0..MaxRecords}

\* JSON bodies a service may answer with.
ErrorBody == [message |-> "Unauthorized"]
CountBodies == {[records |-> <<>>, totalRecords |-> n] : n \in 0..MaxRecords}
                   \cup {[records |-> <<>>], ErrorBody}
PageBodies == {[records |-> p] : p \in Pages} \cup {ErrorBody}
CommandBodies == {[name |-> "accepted"]}
DeleteBodies == {[name |-> "deleted"]}

\* What can come of one HTTP call: a 2xx with a JSON body, a network error
\* (requests.get raises a RequestException), a non-2xx status
\* (raise_for_status raises HTTPError, a RequestException) or a body that is
\* not JSON (response.json raises a ValueError).
Failures == {"ConnectionError", "HTTPError", "JSONDecodeError"}
Responses(bodies) == {[outcome |-> "ok", body |-> b] : b \in bodies}
                         \cup {[outcome |-> e] : e \in Failures}

(***************************************************************************)
(* The HTTP wrappers                                                       *)
(***************************************************************************)
Returned(v, n) == [raised |-> FALSE, value |-> v, logged |-> n]
Raised == [raised |-> TRUE, value |-> None, logged |-> 0]

make_api_request_uncaught(resp) ==
    IF resp.outcome = "ok" THEN Returned(Some(resp.body), 0)
    ELSE IF resp.outcome = "JSONDecodeError" THEN Returned(None, 1)
    ELSE Raised

make_api_request(resp) ==
    IF resp.outcome = "ok" THEN Returned(Some(resp.body), 0)
    ELSE IF resp.outcome \in {"ConnectionError", "HTTPError"} THEN Returned(None, 1)
    ELSE IF resp.outcome = "JSONDecodeError" THEN Returned(None, 1)
    ELSE Raised

make_api_post(resp) ==
    IF resp.outcome = "ok" THEN Returned(Some(resp.body), 0)
    ELSE IF resp.outcome \in {"ConnectionError", "HTTPError"} THEN Returned(None, 1)
    ELSE IF resp.outcome = "JSONDecodeError" THEN Returned(None, 1)
    ELSE Raised

make_api_delete(resp) ==
    IF resp.outcome = "ok" THEN Returned(Some(resp.body), 0)
    ELSE IF resp.outcome \in {"ConnectionError", "HTTPError"} THEN Returned(None, 1)
    ELSE IF resp.outcome = "JSONDecodeError" THEN Returned(None, 1)
    ELSE Raised

Request(method, svc, path, params, data) ==
    [method |-> method, svc |-> svc, path |-> path, params |-> params, data |-> data]

(***************************************************************************)
(* The pure parts of the scan                                              *)
(***************************************************************************)
\* count_records: the value returned for a count response; a response with
\* "records" and without "totalRecords" raises KeyError.
count_records(resp) ==
    IF resp # None /\ "records" \in DOMAIN resp.json
    THEN IF "totalRecords" \in DOMAIN resp.json
         THEN Returned(Some(resp.json.totalRecords), 0)
         ELSE Raised
    ELSE Returned(None, 0)

QueueHasRecordsNoKeyCheck(q) == q # None

\* sonarr_queue is not None and 'records' in sonarr_queue
QueueHasRecords(q) == q # None /\ "records" \in DOMAIN q.json

\* 'title' in item and 'status' in item and 'trackedDownloadStatus' in item
HasKeys(item) ==
    /\ "title" \in DOMAIN item
    /\ "status" \in DOMAIN item
    /\ "trackedDownloadStatus" \in DOMAIN item

\* item['status'] == 'warning' and item['errorMessage'] == '...': the second
\* operand is evaluated only when the first is true, and raises KeyError when
\* the record has no errorMessage.
StallCheck(item) ==
    IF item.status # "warning" THEN "false"
    ELSE IF "errorMessage" \notin DOMAIN item THEN "KeyError"
    ELSE IF item.errorMessage = STALLED_MESSAGE THEN "true"
    ELSE "false"

DeleteParamsNoBlocklist == [removeFromClient |-> "true", blocklist |-> "false"]

DeleteParams == [removeFromClient |-> "true", blocklist |-> "true"]

PageParams(n) == [page |-> "1", pageSize |-> n]

SleepMinutes(t) == t \div 60

\* asyncio.sleep(API_TIMEOUT)
SleepDuration(t) == t

(***************************************************************************)
(* main: the order of the calls of one iteration                           *)
(***************************************************************************)
MainOrderRadarrFirst ==
    << "remove_stalled_radarr_downloads", "remove_stalled_sonarr_downloads",
       "import_sonarr_list", "import_radarr_list",
       "refresh_missing_episodes_sonarr" >>

MainOrder ==
    << "remove_stalled_sonarr_downloads", "remove_stalled_radarr_downloads",
       "import_sonarr_list", "import_radarr_list",
       "refresh_missing_episodes_sonarr" >>

Running(name) == fn \in 1..Len(MainOrder) /\ MainOrder[fn] = name

\* The function returns to main, which awaits the next one or sleeps.
ReturnToMain ==
    /\ fn' = fn + 1
    /\ pc' = IF fn + 1 > Len(MainOrder) THEN "sleep" ELSE "enter"

Crash == pc' = "crashed" /\ fn' = fn

Init ==
    /\ pc = "enter"
    /\ fn = 0
    /\ cycle = 0
    /\ slept = 0
    /\ API_TIMEOUT \in Intervals
    /\ steps = <<>>
    /\ inflight = {}
    /\ requests = <<>>
    /\ the_queue = Unset
    /\ count = Unset
    /\ queue = Unset
    /\ i = 0
    /\ deleted = <<>>
    /\ failed = {}
    /\ warnings = 0
    /\ errors = 0
    /\ reply = NoReply

\* The state a function starts from: nothing of the previous function is kept.
Fresh(name, req) ==
    /\ steps' = Append(steps, name)
    /\ inflight' = inflight \cup {req}
    /\ requests' = <<req>>
    /\ the_queue' = Unset
    /\ count' = Unset
    /\ queue' = Unset
    /\ i' = 0
    /\ deleted' = <<>>
    /\ failed' = {}
    /\ warnings' = 0
    /\ errors' = 0
    /\ reply' = NoReply

Send(req) ==
    /\ inflight' = inflight \cup {req}
    /\ requests' = Append(requests, req)
    /\ reply' = NoReply

Heard(req, resp, r) ==
    /\ inflight' = inflight \ {req}
    /\ reply' = [outcome |-> resp.outcome, isNone |-> (r.value = None),
                 raised |-> r.raised, method |-> req.method]
    /\ errors' = errors + r.logged

(***************************************************************************)
(* while True: logging.info('Running media-tools script')                  *)
(***************************************************************************)
main_loop ==
    /\ fn = 0
    /\ pc = "enter"
    /\ cycle < MaxCycles
    /\ cycle' = cycle + 1
    /\ fn' = 1
    /\ pc' = "enter"
    /\ steps' = <<>>
    /\ reply' = NoReply
    /\ UNCHANGED <<slept, API_TIMEOUT, inflight, requests, the_queue, count,
                   queue, i, deleted, failed, warnings, errors>>

(***************************************************************************)
(* remove_stalled_*_downloads                                              *)
(***************************************************************************)
\* The function is entered; building the page request's params calls
\* count_records, which sends the count GET (no params).
CountSend(name, svc) ==
    /\ Running(name)
    /\ pc = "enter"
    /\ Fresh(name, Request("GET", svc, <<"queue">>, None, None))
    /\ pc' = "count_wait"
    /\ UNCHANGED <<fn, cycle, slept, API_TIMEOUT>>

\* The count GET returns and count_records returns its value.
CountReturn(name) ==
    /\ Running(name)
    /\ pc = "count_wait"
    /\ \E req \in inflight, resp \in Responses(CountBodies) :
         LET r == make_api_request(resp)
             c == count_records(r.value)
         IN  /\ Heard(req, resp, r)
             /\ IF r.raised
                THEN Crash /\ UNCHANGED <<the_queue, count>>
                ELSE /\ the_queue' = r.value
                     /\ IF c.raised
                        THEN Crash /\ UNCHANGED count
                        ELSE count' = c.value /\ pc' = "page_send" /\ fn' = fn
    /\ UNCHANGED <<cycle, slept, API_TIMEOUT, steps, requests, queue, i,
                   deleted, failed, warnings>>

\* The page GET, with pageSize the value count_records returned.
PageSend(name, svc) ==
    /\ Running(name)
    /\ pc = "page_send"
    /\ Send(Request("GET", svc, <<"queue">>, PageParams(count), None))
    /\ pc' = "page_wait"
    /\ UNCHANGED <<fn, cycle, slept, API_TIMEOUT, steps, the_queue, count,
                   queue, i, deleted, failed, warnings, errors>>

\* The page GET returns; the queue is processed, or the warning is logged.
PageReturn(name) ==
    /\ Running(name)
    /\ pc = "page_wait"
    /\ \E req \in inflight, resp \in Responses(PageBodies) :
         LET r == make_api_request(resp)
         IN  /\ Heard(req, resp, r)
             /\ IF r.raised
                THEN Crash /\ UNCHANGED <<queue, i, warnings>>
                ELSE /\ queue' = r.value
                     /\ IF QueueHasRecords(r.value)
                        THEN IF "records" \in DOMAIN r.value.json
                             THEN pc' = "loop" /\ fn' = fn /\ i' = 1
                                  /\ UNCHANGED warnings
                             ELSE Crash /\ UNCHANGED <<i, warnings>>
                        ELSE /\ warnings' = warnings + 1
                             /\ ReturnToMain
                             /\ UNCHANGED i
    /\ UNCHANGED <<cycle, slept, API_TIMEOUT, steps, requests, the_queue,
                   count, deleted, failed>>

\* One turn of: for item in queue['records'].
LoopStep(name, svc) ==
    /\ Running(name)
    /\ pc = "loop"
    /\ LET records == queue.json.records IN
       IF i > Len(records)
       THEN /\ ReturnToMain
            /\ reply' = NoReply
            /\ UNCHANGED <<inflight, requests, i, deleted, warnings>>
       ELSE LET item == records[i] IN
            IF HasKeys(item)
            THEN IF StallCheck(item) = "KeyError"
                 THEN /\ Crash
                      /\ reply' = NoReply
                      /\ UNCHANGED <<inflight, requests, i, deleted, warnings>>
                 ELSE IF StallCheck(item) = "true"
                 THEN IF "id" \in DOMAIN item
                      THEN /\ Send(Request("DELETE", svc, <<"queue", item.id>>,
                                           DeleteParams, None))
                           /\ deleted' = Append(deleted, i)
                           /\ pc' = "delete_wait" /\ fn' = fn
                           /\ UNCHANGED <<i, warnings>>
                      ELSE /\ Crash
                           /\ reply' = NoReply
                           /\ UNCHANGED <<inflight, requests, i, deleted, warnings>>
                 ELSE /\ i' = i + 1
                      /\ reply' = NoReply
                      /\ UNCHANGED <<pc, fn, inflight, requests, deleted, warnings>>
            ELSE /\ warnings' = warnings + 1
                 /\ i' = i + 1
                 /\ reply' = NoReply
                 /\ UNCHANGED <<pc, fn, inflight, requests, deleted>>
    /\ UNCHANGED <<cycle, slept, API_TIMEOUT, steps, the_queue, count, queue,
                   failed, errors>>

\* The DELETE returns; its result is not looked at.
DeleteReturn(name) ==
    /\ Running(name)
    /\ pc = "delete_wait"
    /\ \E req \in inflight, resp \in Responses(DeleteBodies) :
         LET r == make_api_delete(resp)
         IN  /\ Heard(req, resp, r)
             /\ IF r.raised
                THEN Crash /\ UNCHANGED <<i, failed>>
                ELSE /\ failed' = IF r.value = None THEN failed \cup {i} ELSE failed
                     /\ i' = i + 1
                     /\ pc' = "loop" /\ fn' = fn
    /\ UNCHANGED <<cycle, slept, API_TIMEOUT, steps, requests, the_queue,
                   count, queue, deleted, warnings>>

remove_stalled_sonarr_downloads ==
    \/ CountSend("remove_stalled_sonarr_downloads", "sonarr")
    \/ CountReturn("remove_stalled_sonarr_downloads")
    \/ PageSend("remove_stalled_sonarr_downloads", "sonarr")
    \/ PageReturn("remove_stalled_sonarr_downloads")
    \/ LoopStep("remove_stalled_sonarr_downloads", "sonarr")
    \/ DeleteReturn("remove_stalled_sonarr_downloads")

remove_stalled_radarr_downloads ==
    \/ CountSend("remove_stalled_radarr_downloads", "radarr")
    \/ CountReturn("remove_stalled_radarr_downloads")
    \/ PageSend("remove_stalled_radarr_downloads", "radarr")
    \/ PageReturn("remove_stalled_radarr_downloads")
    \/ LoopStep("remove_stalled_radarr_downloads", "radarr")
    \/ DeleteReturn("remove_stalled_radarr_downloads")

(***************************************************************************)
(* The command triggers                                                    *)
(***************************************************************************)
CommandSend(name, svc, command) ==
    /\ Running(name)
    /\ pc = "enter"
    /\ Fresh(name, Request("POST", svc, <<"command">>, None, [name |-> command]))
    /\ pc' = "post_wait"
    /\ UNCHANGED <<fn, cycle, slept, API_TIMEOUT>>

CommandReturn(name) ==
    /\ Running(name)
    /\ pc = "post_wait"
    /\ \E req \in inflight, resp \in Responses(CommandBodies) :
         LET r == make_api_post(resp)
         IN  /\ Heard(req, resp, r)
             /\ IF r.raised
                THEN Crash /\ UNCHANGED warnings
                ELSE /\ warnings' = IF r.value # None THEN warnings ELSE warnings + 1
                     /\ ReturnToMain
    /\ UNCHANGED <<cycle, slept, API_TIMEOUT, steps, requests, the_queue,
                   count, queue, i, deleted, failed>>

import_sonarr_list ==
    \/ CommandSend("import_sonarr_list", "sonarr", "ImportListSync")
    \/ CommandReturn("import_sonarr_list")

import_radarr_list ==
    \/ CommandSend("import_radarr_list", "radarr", "ImportListSync")
    \/ CommandReturn("import_radarr_list")

refresh_missing_episodes_sonarr ==
    \/ CommandSend("refresh_missing_episodes_sonarr", "sonarr", "missingEpisodeSearch")
    \/ CommandReturn("refresh_missing_episodes_sonarr")

(***************************************************************************)
(* await asyncio.sleep(API_TIMEOUT), then the next iteration               *)
(***************************************************************************)
sleep ==
    /\ pc = "sleep"
    /\ slept' = slept + SleepDuration(API_TIMEOUT)
    /\ steps' = Append(steps, "sleep")
    /\ fn' = 0
    /\ pc' = "enter"
    /\ reply' = NoReply
    /\ UNCHANGED <<cycle, API_TIMEOUT, inflight, requests, the_queue, count,
                   queue, i, deleted, failed, warnings, errors>>

Next ==
    \/ main_loop
    \/ remove_stalled_sonarr_downloads
    \/ remove_stalled_radarr_downloads
    \/ import_sonarr_list
    \/ import_radarr_list
    \/ refresh_missing_episodes_sonarr
    \/ sleep

Spec == Init /\ [][Next]_vars

TypeOK ==
    /\ pc \in {"enter", "count_wait", "page_send", "page_wait", "loop",
               "delete_wait", "post_wait", "sleep", "crashed"}
    /\ fn \in 0..(Len(MainOrder) + 1)
    /\ cycle \in 0..MaxCycles
    /\ API_TIMEOUT \in Intervals
    /\ Cardinality(inflight) <= 1
(***************************************************************************)
(* Vocabulary of the properties                                            *)
(***************************************************************************)
ScanNames == {"remove_stalled_sonarr_downloads", "remove_stalled_radarr_downloads"}
CommandNames == {"import_sonarr_list", "import_radarr_list",
                 "refresh_missing_episodes_sonarr"}

LastEntered == IF steps = <<>> THEN "none" ELSE steps[Len(steps)]

\* The history variables describe a scan: one that runs, has returned to
\* main, or has ended the process.
InScan == LastEntered \in ScanNames
ScanReturned == InScan /\ pc = "enter"
ScanCrashed == InScan /\ pc = "crashed"
ScanOver == ScanReturned \/ ScanCrashed

ServiceOf(name) ==
    IF name \in {"remove_stalled_radarr_downloads", "import_radarr_list"}
    THEN "radarr" ELSE "sonarr"

\* status == "warning" AND errorMessage == the fixed stall message
StallPredicate(item) ==
    /\ "status" \in DOMAIN item
    /\ item.status = "warning"
    /\ "errorMessage" \in DOMAIN item
    /\ item.errorMessage = STALLED_MESSAGE

PageHasRecords == queue # Unset /\ queue # None /\ "records" \in DOMAIN queue.json
PageLacksRecords == queue # Unset /\ queue # None /\ "records" \notin DOMAIN queue.json

IsDelete(req) == req.method = "DELETE"
IsPageGet(req) == req.method = "GET" /\ req.params # None
DeleteRequests == {k \in DOMAIN requests : IsDelete(requests[k])}
TimesDeleted(j) == Cardinality({k \in DOMAIN deleted : deleted[k] = j})

IsPrefix(s, t) == Len(s) <= Len(t) /\ \A k \in DOMAIN s : s[k] = t[k]

(***************************************************************************)
(* Properties                                                              *)
(***************************************************************************)

\* C1: once a scan is over, the records of its page a DELETE was sent for are
\* exactly the records matching the stall predicate, each once, whatever
\* fields the records have.
C1_ExactlyStalledDeleted ==
    (ScanOver /\ PageHasRecords) =>
        \A j \in DOMAIN queue.json.records :
            TimesDeleted(j) = (IF StallPredicate(queue.json.records[j]) THEN 1 ELSE 0)

C3_FailedCallReturnsNull ==
    reply.outcome \in Failures =>
        /\ ~reply.raised
        /\ reply.isNone
        /\ pc # "crashed"
        /\ errors >= 1
        /\ inflight = {}
        /\ reply.method = "GET" =>
               \/ Len(requests) = 1 /\ pc = "page_send" /\ count = None
               \/ Len(requests) = 2 /\ ScanReturned /\ warnings = 1
        /\ reply.method = "DELETE" => pc = "loop" /\ i = deleted[Len(deleted)] + 1
        /\ reply.method = "POST" =>
               /\ pc \in {"enter", "sleep"}
               /\ LastEntered \in CommandNames
               /\ warnings = 1

C3_Witness ==
    /\ reply.outcome = "ConnectionError"
    /\ reply.method = "GET"
    /\ reply.isNone
    /\ ScanReturned
    /\ fn = 2

\* C4: after a count GET that returned None or a response without "records",
\* the scan sends nothing more: the count GET stays its only request.
C4_CountErrorShortCircuits ==
    (InScan /\ count = None) => Len(requests) = 1

\* C5: every DELETE sent targets /queue/{id}, the id of the record it is sent
\* for, and carries removeFromClient=true and blocklist=true.
C5_DeleteParams ==
    /\ \A k \in DOMAIN requests :
           IsDelete(requests[k]) =>
               /\ Len(requests[k].path) = 2
               /\ requests[k].path[1] = "queue"
               /\ requests[k].params = [removeFromClient |-> "true", blocklist |-> "true"]
    /\ \A req \in inflight : req \in {requests[k] : k \in DOMAIN requests}
    /\ Cardinality(DeleteRequests) = Len(deleted)
    /\ \A m \in DOMAIN deleted :
           \E k \in DeleteRequests :
               requests[k].path[2] = queue.json.records[deleted[m]].id

C5_Witness ==
    /\ Len(deleted) = 2
    /\ Cardinality(DeleteRequests) = 2
    /\ ScanReturned

\* C6: the loop sleeps once per iteration, for API_TIMEOUT, after the last
\* call of the iteration: when k iterations have been started the time slept
\* is (k - 1) * API_TIMEOUT, and k * API_TIMEOUT once the k-th sleep is over;
\* with an interval of 5 the third iteration starts after at least 10.
C6_SleepPerCycle ==
    /\ slept = (IF fn = 0 THEN cycle ELSE cycle - 1) * API_TIMEOUT
    /\ ("sleep" \in {steps[k] : k \in DOMAIN steps}) =>
           fn = 0 /\ Len(steps) = 6 /\ steps[6] = "sleep"
    /\ (API_TIMEOUT = 5 /\ cycle >= 3) => slept >= 10

C6_Witness ==
    /\ API_TIMEOUT = 5
    /\ cycle = 3
    /\ fn = 1
    /\ slept = 10

\* C7: the process never stops on its own, whatever the responses hold.
C7_NeverStops == pc # "crashed"

\* C8: at most one call is in flight, each call of a function goes to that
\* function's service, and the functions of an iteration are entered in the
\* order: Sonarr scan, Radarr scan, Sonarr import, Radarr import, Sonarr
\* missing-episode search, sleep.
C8_SequentialOrder ==
    /\ Cardinality(inflight) <= 1
    /\ inflight # {} => pc \in {"count_wait", "page_wait", "delete_wait", "post_wait"}
    /\ IsPrefix(steps, << "remove_stalled_sonarr_downloads",
                          "remove_stalled_radarr_downloads",
                          "import_sonarr_list", "import_radarr_list",
                          "refresh_missing_episodes_sonarr", "sleep" >>)
    /\ \A k \in DOMAIN requests :
           /\ steps # <<>> =>
                  requests[k].svc = ServiceOf(IF LastEntered = "sleep"
                                              THEN "refresh_missing_episodes_sonarr"
                                              ELSE LastEntered)
           /\ (requests[k].method = "POST"
                   /\ requests[k].data = [name |-> "missingEpisodeSearch"])
                  => requests[k].svc = "sonarr"

C8_Witness ==
    /\ Len(steps) = 6
    /\ steps[6] = "sleep"
    /\ steps[2] = "remove_stalled_radarr_downloads"
    /\ cycle = 2

\* C9: the page GET is the second request of the scan, with page=1 and
\* pageSize the totalRecords value of the count response.
C9_PageSizedToCount ==
    \A k \in DOMAIN requests :
        IsPageGet(requests[k]) =>
            /\ k = 2
            /\ requests[k].params.page = "1"
            /\ the_queue # Unset
            /\ the_queue # None
            /\ "totalRecords" \in DOMAIN the_queue.json
            /\ requests[k].params.pageSize = Some(the_queue.json.totalRecords)

\* C10: once a scan in which a DELETE returned None is over, every record
\* after the failed one that matches the stall predicate has had exactly one
\* DELETE, sent to the service scanned.
C10_FailedDeleteDoesNotStopScan ==
    (ScanOver /\ failed # {}) =>
        /\ \A f \in failed :
               \A j \in (f + 1)..Len(queue.json.records) :
                   StallPredicate(queue.json.records[j]) => TimesDeleted(j) = 1
        /\ \A k \in DeleteRequests : requests[k].svc = ServiceOf(LastEntered)

====
